---- MODULE Spec2Model ----
(***************************************************************************)
(* Model of the background script of the browser extension                 *)
(* (src/src/background.ts): request intake over runtime ports, the three   *)
(* warning paths (allowance, NFT listing, hash signature), the port        *)
(* registry messagePorts, the approvedMessages list and the routing of     *)
(* popup responses back to the port that is waiting for them.              *)
(*                                                                         *)
(* The script runs on a JavaScript event loop.  Each action below is one   *)
(* run-to-completion piece of a handler: the code between two await        *)
(* points.  A continuation that resumes after `await` of an already        *)
(* settled promise is a microtask; event deliveries (port messages,        *)
(* storage results, timers, runtime messages) are macrotasks and only run  *)
(* when no microtask is pending.                                           *)
(***************************************************************************)
EXTENDS Integers, Sequences, FiniteSets, TLC

VARIABLES
  requests,          \* one record per processMessage call, in arrival order
  messagePorts,      \* background.ts:31   requestId -> port (NoPort = absent)
  approvedMessages,  \* background.ts:32   list of approved request ids
  popups,            \* one record per createConfirmationPopup call
  outbox,            \* every remotePort.postMessage, in program order
  disconnected,      \* the ports whose other end has gone away
  errors             \* every exception thrown out of a handler

vars ==
  <<requests, messagePorts, approvedMessages, popups, outbox, disconnected, errors>>

-----------------------------------------------------------------------------
(* Bounds of the model *)

\* number of inbound request messages over the life of the process
MaxRequests == 2

\* runtime ports opened by content scripts
Ports == {"portA", "portB"}

\* request ids the callers generate
RequestIds == {"id1", "id2"}

-----------------------------------------------------------------------------
(* Program constants *)

\* background.ts:156   length of a hex-encoded 32 byte hash
HashLength == 64

\* background.ts:110   content lines of an allowance popup
AllowanceLines == 2

\* background.ts:165   content lines of a hash popup
HashLines == 0

\* background.ts:190   width of the popup
PopupWidth == 480

\* background.ts:191   height of a popup without content lines
BaseHeight == 320

\* background.ts:191   height of a content line and of the bypass notice
LineHeight == 24

NoPort == "undefined"

\* lib/constants RequestType
RequestType ==
  [TRANSACTION |-> "transaction",
   TYPED_SIGNATURE |-> "typed-signature",
   UNTYPED_SIGNATURE |-> "untyped-signature"]

\* lib/constants WarningType
WarningType ==
  [ALLOWANCE |-> "allowance", LISTING |-> "listing", HASH |-> "hash"]

\* lib/constants AllowList: hostnames exempt from one warning category each.
\* The three lists are kept distinct so that consulting the wrong list shows.
AllowList ==
  [ALLOWANCE |-> {"allowance-ok.example"},
   NFT_LISTING |-> {"listing-ok.example"},
   HASH_SIGNATURE |-> {"hash-ok.example"}]

Hostnames ==
  {"dapp.example", "allowance-ok.example", "listing-ok.example", "hash-ok.example"}

\* keys read through getStorage('local', key, true)
SettingKeys ==
  {"settings:warnOnApproval", "settings:warnOnListing", "settings:warnOnHashSignatures"}

\* what the settings store may hold when a read resolves
Storages == [SettingKeys -> BOOLEAN]

-----------------------------------------------------------------------------
(* Payloads.  The decoders are external pure functions; a payload carries   *)
(* what each decoder finds in it.                                          *)

Null == [null |-> TRUE]

Allowance == [asset |-> "0xasset", spender |-> "0xspender"]

Legs(n) == [i \in 1..n |-> "leg"]

Listing(o, c) == [offer |-> Legs(o), consideration |-> Legs(c)]

\* raw transactions: an ERC20 approve call, or anything else
Transactions == {[approval |-> Allowance], [approval |-> Null]}

PrimaryTypes == {"Permit", "permit", "OrderComponents"}

Listings == {Null, Listing(2, 3), Listing(1, 0)}

\* typed-data documents: primaryType, and what the permit decoder and the
\* listing decoder would each find in the document's structure
TypedDatas ==
  [primaryType : PrimaryTypes, permit : {Allowance, Null}, listing : Listings]

\* decode.ts decodeApproval(transaction) -> {asset, spender} | undefined
decodeApproval(transaction) == transaction.approval

\* decode.ts decodePermit(typedData) -> {asset, spender} | undefined
decodePermit(typedData) == typedData.permit

\* decode.ts decodeNftListing(typedData) -> {platform, listing}
decodeNftListing(typedData) ==
  [platform |-> "marketplace", listing |-> typedData.listing]

-----------------------------------------------------------------------------
(* Messages to sign.  A message is a string; the model writes it as        *)
(* head characters, an optional "0x", and tail characters, and Chars gives *)
(* the string's characters.                                                *)

Rep(c, n) == [i \in 1..n |-> c]

Chars(m) ==
  Rep("a", m.head) \o (IF m.marker THEN <<"0", "x">> ELSE <<>>) \o Rep("a", m.tail)

SignMessages ==
  [head : {0, 1}, marker : BOOLEAN,
   tail : (HashLength - 3)..(HashLength + 1)]

\* index of the first occurrence of "0x" in s, 0 when there is none
FirstMatch0x(s) ==
  LET hits == {i \in 1..(Len(s) - 1) : s[i] = "0" /\ s[i + 1] = "x"}
  IN IF hits = {} THEN 0 ELSE CHOOSE i \in hits : \A j \in hits : i <= j

\* background.ts:156   String(signMessage).replace(/0x/, '')
\* String.prototype.replace with a non-global regular expression replaces
\* the first match, wherever it is.
Replace0x(s) ==
  LET i == FirstMatch0x(s)
  IN IF i = 0 THEN s
     ELSE SubSeq(s, 1, i - 1) \o SubSeq(s, i + 2, Len(s))

-----------------------------------------------------------------------------
(* Inbound request messages (lib/types Message) *)

TransactionDatas ==
  [type : {RequestType.TRANSACTION}, hostname : Hostnames, bypassed : BOOLEAN,
   transaction : Transactions]

TypedSignatureDatas ==
  [type : {RequestType.TYPED_SIGNATURE}, hostname : Hostnames, bypassed : BOOLEAN,
   typedData : TypedDatas]

UntypedSignatureDatas ==
  [type : {RequestType.UNTYPED_SIGNATURE}, hostname : Hostnames, bypassed : BOOLEAN,
   message : SignMessages]

Messages ==
  [requestId : RequestIds,
   data : TransactionDatas \cup TypedSignatureDatas \cup UntypedSignatureDatas]

\* lib/types isTransactionMessage
isTransactionMessage(message) == message.data.type = RequestType.TRANSACTION

\* lib/types isTypedSignatureMessage
isTypedSignatureMessage(message) == message.data.type = RequestType.TYPED_SIGNATURE


-----------------------------------------------------------------------------
(* Decision engine *)

\* createPopup with the primary type compared without regard to case
createPopupAnyCase(message) ==
  IF isTransactionMessage(message) THEN "createAllowancePopup"
  ELSE IF isTypedSignatureMessage(message) THEN
    LET mayBePermit == message.data.typedData.primaryType \in {"Permit", "permit"}
    IN IF mayBePermit THEN "createAllowancePopup" ELSE "createNftListingPopup"
  ELSE "createHashSignaturePopup"

\* background.ts:74-83   which path createPopup hands the message to
createPopup(message) ==
  IF isTransactionMessage(message) THEN "createAllowancePopup"
  ELSE IF isTypedSignatureMessage(message) THEN
    LET mayBePermit == message.data.typedData.primaryType = "Permit"
    IN IF mayBePermit THEN "createAllowancePopup" ELSE "createNftListingPopup"
  ELSE "createHashSignaturePopup"

\* the settings key each path reads before anything else (lines 86, 118, 147)
SettingOf(path) ==
  CASE path = "createAllowancePopup" -> "settings:warnOnApproval"
    [] path = "createNftListingPopup" -> "settings:warnOnListing"
    [] path = "createHashSignaturePopup" -> "settings:warnOnHashSignatures"

\* Array.prototype.includes on approvedMessages
includes(list, x) == \E i \in 1..Len(list) : list[i] = x

\* a path that returns false raises nothing
NoPopup == [popupCreated |-> FALSE, raised |-> <<>>]

\* background.ts:172-175   createConfirmationPopup up to its first await:
\* the popup exists as a pending call waiting for the 150ms delay
Raise(type, requestId, contentLines, bypassed) ==
  [popupCreated |-> TRUE,
   raised |-> <<[type |-> type, requestId |-> requestId,
                 contentLines |-> contentLines, bypassed |-> bypassed,
                 stage |-> "delay", currentWindow |-> Null, positions |-> Null,
                 requested |-> "none", responded |-> "none",
                 routedTo |-> NoPort]>>]

\* createAllowancePopup consulting the listing allow-list at line 91
createAllowancePopupWrongList(message, warnOnApproval, approved) ==
  IF ~warnOnApproval THEN NoPopup
  ELSE IF message.data.hostname \in AllowList.NFT_LISTING THEN NoPopup
  ELSE IF includes(approved, message.requestId) THEN NoPopup
  ELSE
    LET allowance ==
          IF message.data.type = RequestType.TRANSACTION
          THEN decodeApproval(message.data.transaction)
          ELSE decodePermit(message.data.typedData)
    IN IF allowance = Null THEN NoPopup
       ELSE Raise(WarningType.ALLOWANCE, message.requestId, AllowanceLines,
                  message.data.bypassed)

\* createAllowancePopup without the approvedMessages test of line 92
createAllowancePopupAgain(message, warnOnApproval, approved) ==
  IF ~warnOnApproval THEN NoPopup
  ELSE IF message.data.hostname \in AllowList.ALLOWANCE THEN NoPopup
  ELSE
    LET allowance ==
          IF message.data.type = RequestType.TRANSACTION
          THEN decodeApproval(message.data.transaction)
          ELSE decodePermit(message.data.typedData)
    IN IF allowance = Null THEN NoPopup
       ELSE Raise(WarningType.ALLOWANCE, message.requestId, AllowanceLines,
                  message.data.bypassed)

\* background.ts:87-114   createAllowancePopup after the settings read
createAllowancePopup(message, warnOnApproval, approved) ==
  IF ~warnOnApproval THEN NoPopup
  ELSE IF message.data.hostname \in AllowList.ALLOWANCE THEN NoPopup
  ELSE IF includes(approved, message.requestId) THEN NoPopup
  ELSE
    LET allowance ==
          IF message.data.type = RequestType.TRANSACTION
          THEN decodeApproval(message.data.transaction)
          ELSE decodePermit(message.data.typedData)
    IN IF allowance = Null THEN NoPopup
       ELSE Raise(WarningType.ALLOWANCE, message.requestId, AllowanceLines,
                  message.data.bypassed)

\* createNftListingPopup without the approvedMessages test of line 124
createNftListingPopupAgain(message, warnOnListing, approved) ==
  IF ~warnOnListing THEN NoPopup
  ELSE IF message.data.hostname \in AllowList.NFT_LISTING THEN NoPopup
  ELSE
    LET listing == decodeNftListing(message.data.typedData).listing
    IN IF listing = Null THEN NoPopup
       ELSE Raise(WarningType.LISTING, message.requestId,
                  Len(listing.offer) + Len(listing.consideration),
                  message.data.bypassed)

\* createNftListingPopup sizing the popup by the offer alone
createNftListingPopupOfferOnly(message, warnOnListing, approved) ==
  IF ~warnOnListing THEN NoPopup
  ELSE IF message.data.hostname \in AllowList.NFT_LISTING THEN NoPopup
  ELSE IF includes(approved, message.requestId) THEN NoPopup
  ELSE
    LET listing == decodeNftListing(message.data.typedData).listing
    IN IF listing = Null THEN NoPopup
       ELSE Raise(WarningType.LISTING, message.requestId, Len(listing.offer),
                  message.data.bypassed)

\* background.ts:119-143   createNftListingPopup after the settings read
createNftListingPopup(message, warnOnListing, approved) ==
  IF ~warnOnListing THEN NoPopup
  ELSE IF message.data.hostname \in AllowList.NFT_LISTING THEN NoPopup
  ELSE IF includes(approved, message.requestId) THEN NoPopup
  ELSE
    LET listing == decodeNftListing(message.data.typedData).listing
    IN IF listing = Null THEN NoPopup
       ELSE Raise(WarningType.LISTING, message.requestId,
                  Len(listing.offer) + Len(listing.consideration),
                  message.data.bypassed)

\* background.ts:148-169   createHashSignaturePopup after the settings read
createHashSignaturePopup(message, warnOnHashSignatures, approved) ==
  IF ~warnOnHashSignatures THEN NoPopup
  ELSE IF message.data.hostname \in AllowList.HASH_SIGNATURE THEN NoPopup
  ELSE IF includes(approved, message.requestId) THEN NoPopup
  ELSE IF Len(Replace0x(Chars(message.data.message))) # HashLength THEN NoPopup
  ELSE Raise(WarningType.HASH, message.requestId, HashLines, message.data.bypassed)

\* the body of the chosen path once getStorage has resolved
Evaluate(path, message, storage, approved) ==
  CASE path = "createAllowancePopup" ->
         createAllowancePopup(message, storage[SettingOf(path)], approved)
    [] path = "createNftListingPopup" ->
         createNftListingPopup(message, storage[SettingOf(path)], approved)
    [] path = "createHashSignaturePopup" ->
         createHashSignaturePopup(message, storage[SettingOf(path)], approved)

-----------------------------------------------------------------------------
(* Popup geometry *)

\* Math.round of x * 0.5 for an integer x: halves go up
RoundHalf(x) == (x + 1) \div 2

\* Math.round of y * 0.2 for an integer y: the nearest integer to y / 5
\* (the double y * 0.2 is never within 0.1 of a half)
RoundFifth(y) == (2 * y + 5) \div 10

\* a placement that cuts the halves off instead of rounding them
getPopupPositionsTruncated(window, contentLines, bypassed) ==
  LET width == PopupWidth
      height == BaseHeight + contentLines * LineHeight + (IF bypassed THEN LineHeight ELSE 0)
  IN [width |-> width, height |-> height,
      left |-> window.left + ((window.width - width) \div 2),
      top |-> window.top + ((window.height - height) \div 5)]

\* background.ts:189-197   getPopupPositions
getPopupPositions(window, contentLines, bypassed) ==
  LET width == PopupWidth
      height == BaseHeight + contentLines * LineHeight + (IF bypassed THEN LineHeight ELSE 0)
      left == window.left + RoundHalf(window.width - width)
      top == window.top + RoundFifth(window.height - height)
  IN [width |-> width, height |-> height, left |-> left, top |-> top]

\* a browser window the request may have come from
OneWindow == {[left |-> 100, top |-> 50, width |-> 1000, height |-> 800]}

\* windows on other monitors, of odd sizes, and smaller than the popup
Windows ==
  [left : {-1280, 0, 100}, top : {-7, 50},
   width : {300, 479, 1000, 1001}, height : {200, 611, 800, 802, 803, 804}]

-----------------------------------------------------------------------------
(* Telemetry *)

\* what becomes of an event handed to track
TrackOutcomes == {"sent", "failed"}

\* a track call that throws when the event cannot be sent
trackThrows(outcome) == outcome # "failed"

\* background.ts:45, 111, 140, 166   track(...) as a statement: the call
\* returns whatever becomes of the event, and what it returns is dropped.
\* TRUE: control reaches the next statement.
track(outcome) == TRUE

-----------------------------------------------------------------------------
(* Event loop *)

\* a processMessage call whose await has settled and whose continuation is
\* queued as a microtask
MicrotaskPending == \E i \in 1..Len(requests) : requests[i].pc = "resume"

\* an event loop that takes the next task while a continuation is queued
AnyTaskMayRun == TRUE

\* macrotasks are taken from the task queue only when the microtask queue
\* is empty
MacrotaskMayRun == ~MicrotaskPending

-----------------------------------------------------------------------------
(* Request messages the ports deliver in the protocol specification: one    *)
(* payload per request type and so per path, on a host that no list        *)
(* exempts.  The approval prompts unless its setting is off or its id is   *)
(* approved; the order document holds no listing and the text is no hash.  *)

Inbound ==
  {m \in Messages :
     /\ m.data.hostname = "dapp.example"
     /\ isTransactionMessage(m) => m.data.transaction = [approval |-> Allowance]
     /\ isTypedSignatureMessage(m) =>
          m.data.typedData =
            [primaryType |-> "OrderComponents", permit |-> Null, listing |-> Null]
     /\ m.data.type = RequestType.UNTYPED_SIGNATURE =>
          m.data.message = [head |-> 0, marker |-> FALSE, tail |-> HashLength - 1]}

\* approvedMessages as earlier approvals may have left it
ApprovedLists == UNION {[1..n -> RequestIds] : n \in 0..2}

-----------------------------------------------------------------------------
(* Actions *)

Init ==
  /\ requests = <<>>
  /\ messagePorts = [id \in RequestIds |-> NoPort]
  /\ approvedMessages = <<>>
  /\ popups = <<>>
  /\ outbox = <<>>
  /\ disconnected = {}
  /\ errors = <<>>

\* background.ts:35-37, 58-59, 74-86   a port delivers a request message:
\* processMessage calls createPopup, the chosen path asks for its setting
\* and everything suspends on the settings read
Receive(remotePort, message) ==
  /\ MacrotaskMayRun
  /\ remotePort \notin disconnected
  /\ requests' = Append(requests,
       [message |-> message, remotePort |-> remotePort,
        path |-> createPopup(message), pc |-> "getStorage",
        warn |-> TRUE, popupCreated |-> FALSE])
  /\ UNCHANGED <<messagePorts, approvedMessages, popups, outbox, disconnected, errors>>

\* what the log keeps of a processMessage call that has returned
Returned(r) ==
  [pc |-> "done", requestId |-> r.message.requestId, remotePort |-> r.remotePort,
   bypassed |-> r.message.data.bypassed, popupCreated |-> r.popupCreated]

\* the pending popup calls of a path, with what became of the event the
\* path handed to track
Tracked(raised, outcome) ==
  [k \in 1..Len(raised) |-> [raised[k] EXCEPT !.requested = outcome]]

\* background.ts:86-114, 118-143, 147-169   the settings read resolves and
\* the path runs to its return; processMessage's continuation is queued.
\* A path that raises a popup calls track before it returns true; were the
\* call to throw, the path's promise would reject and processMessage would
\* end at line 59.
StorageResolved(i, storage, outcome) ==
  /\ MacrotaskMayRun
  /\ requests[i].pc = "getStorage"
  /\ LET r == requests[i]
         result == Evaluate(r.path, r.message, storage, approvedMessages)
         evaluated == [r EXCEPT !.warn = storage[SettingOf(r.path)],
                                !.popupCreated = result.popupCreated]
     IN /\ popups' = popups \o Tracked(result.raised, outcome)
        /\ IF result.popupCreated /\ ~track(outcome)
           THEN /\ requests' = [requests EXCEPT ![i] = Returned(evaluated)]
                /\ errors' = Append(errors,
                      [where |-> "processMessage", requestId |-> r.message.requestId])
           ELSE /\ requests' = [requests EXCEPT ![i] = [evaluated EXCEPT !.pc = "resume"]]
                /\ UNCHANGED errors
  /\ UNCHANGED <<messagePorts, approvedMessages, outbox, disconnected>>

\* the request id and the bypassed flag of a logged call, running or returned
IdOf(r) == IF r.pc = "done" THEN r.requestId ELSE r.message.requestId

BypassedOf(r) == IF r.pc = "done" THEN r.bypassed ELSE r.message.data.bypassed

\* processMessage without the early return of line 62: a bypassed request is
\* answered or registered like any other
ResumeAnswersBypassed(i) ==
  /\ requests[i].pc = "resume"
  /\ LET r == requests[i]
         message == r.message
     IN IF ~r.popupCreated
        THEN /\ outbox' = Append(outbox,
                   [port |-> r.remotePort, requestId |-> message.requestId,
                    data |-> TRUE])
             /\ UNCHANGED messagePorts
        ELSE /\ messagePorts' = [messagePorts EXCEPT ![message.requestId] = r.remotePort]
             /\ UNCHANGED outbox
  /\ requests' = [requests EXCEPT ![i] = Returned(requests[i])]
  /\ UNCHANGED <<approvedMessages, popups, disconnected, errors>>

\* processMessage with the test of line 65 inverted: the allow is posted when
\* a popup was created and the port is stored when none was
ResumeInverted(i) ==
  /\ requests[i].pc = "resume"
  /\ LET r == requests[i]
         message == r.message
     IN IF message.data.bypassed
        THEN UNCHANGED <<messagePorts, outbox>>
        ELSE IF r.popupCreated
        THEN /\ outbox' = Append(outbox,
                   [port |-> r.remotePort, requestId |-> message.requestId,
                    data |-> TRUE])
             /\ UNCHANGED messagePorts
        ELSE /\ messagePorts' = [messagePorts EXCEPT ![message.requestId] = r.remotePort]
             /\ UNCHANGED outbox
  /\ requests' = [requests EXCEPT ![i] = Returned(requests[i])]
  /\ UNCHANGED <<approvedMessages, popups, disconnected, errors>>

\* processMessage without the return of line 67: after the immediate allow
\* the port is stored as well
ResumeFallsThrough(i) ==
  /\ requests[i].pc = "resume"
  /\ LET r == requests[i]
         message == r.message
     IN IF message.data.bypassed
        THEN UNCHANGED <<messagePorts, outbox>>
        ELSE /\ outbox' =
                  IF ~r.popupCreated
                  THEN Append(outbox,
                         [port |-> r.remotePort, requestId |-> message.requestId,
                          data |-> TRUE])
                  ELSE outbox
             /\ messagePorts' = [messagePorts EXCEPT ![message.requestId] = r.remotePort]
  /\ requests' = [requests EXCEPT ![i] = Returned(requests[i])]
  /\ UNCHANGED <<approvedMessages, popups, disconnected, errors>>

\* processMessage with the bypass test of line 62 after the test of line 65:
\* a bypassed request that raised a popup has its port registered
ResumeRegistersBypassed(i) ==
  /\ requests[i].pc = "resume"
  /\ LET r == requests[i]
         message == r.message
     IN IF ~r.popupCreated
        THEN IF message.data.bypassed
             THEN UNCHANGED <<messagePorts, outbox>>
             ELSE /\ outbox' = Append(outbox,
                        [port |-> r.remotePort, requestId |-> message.requestId,
                         data |-> TRUE])
                  /\ UNCHANGED messagePorts
        ELSE /\ messagePorts' = [messagePorts EXCEPT ![message.requestId] = r.remotePort]
             /\ UNCHANGED outbox
  /\ requests' = [requests EXCEPT ![i] = Returned(requests[i])]
  /\ UNCHANGED <<approvedMessages, popups, disconnected, errors>>

\* background.ts:61-71   processMessage after `await createPopup(message)`
Resume(i) ==
  /\ requests[i].pc = "resume"
  /\ LET r == requests[i]
         message == r.message
     IN IF message.data.bypassed
        THEN UNCHANGED <<messagePorts, outbox>>
        ELSE IF ~r.popupCreated
        THEN /\ outbox' = Append(outbox,
                   [port |-> r.remotePort, requestId |-> message.requestId,
                    data |-> TRUE])
             /\ UNCHANGED messagePorts
        ELSE /\ messagePorts' = [messagePorts EXCEPT ![message.requestId] = r.remotePort]
             /\ UNCHANGED outbox
  /\ requests' = [requests EXCEPT ![i] = Returned(requests[i])]
  /\ UNCHANGED <<approvedMessages, popups, disconnected, errors>>

\* background.ts:66   remotePort.postMessage throws on a port whose other end
\* has gone away: the call ends there
ResumeOnDisconnectedPort(i) ==
  /\ requests[i].pc = "resume"
  /\ requests' = [requests EXCEPT ![i] = Returned(requests[i])]
  /\ errors' = Append(errors,
        [where |-> "processMessage", requestId |-> requests[i].message.requestId])
  /\ UNCHANGED <<messagePorts, approvedMessages, popups, outbox, disconnected>>

\* the continuation of call i is about to post on a disconnected port
ResumePostThrows(i) ==
  /\ requests[i].pc = "resume"
  /\ ~requests[i].message.data.bypassed /\ ~requests[i].popupCreated
  /\ requests[i].remotePort \in disconnected

\* background.ts:174-186   the delay and the window lookup are over, the
\* popup is placed relative to the current window and its window is
\* created: the confirmation page is on screen
CreateWindow(k, currentWindow) ==
  /\ MacrotaskMayRun
  /\ popups[k].stage = "delay"
  /\ popups' = [popups EXCEPT
       ![k].stage = "open",
       ![k].currentWindow = currentWindow,
       ![k].positions =
          getPopupPositions(currentWindow, popups[k].contentLines, popups[k].bypassed)]
  /\ UNCHANGED <<requests, messagePorts, approvedMessages, outbox, disconnected, errors>>

\* the listener without the delete of line 53: the entry outlives delivery
ListenerKeepsEntry(response) ==
  LET responsePort == messagePorts[response.requestId]
  IN /\ approvedMessages' =
          IF response.data THEN Append(approvedMessages, response.requestId)
          ELSE approvedMessages
     /\ IF responsePort # NoPort
        THEN /\ outbox' = Append(outbox,
                   [port |-> responsePort, requestId |-> response.requestId,
                    data |-> response.data])
             /\ UNCHANGED messagePorts
        ELSE UNCHANGED <<outbox, messagePorts>>

\* the listener with line 51 reading `if (response.data && responsePort)`:
\* a rejection is never delivered
ListenerDropsRejections(response) ==
  LET responsePort == messagePorts[response.requestId]
  IN /\ approvedMessages' =
          IF response.data THEN Append(approvedMessages, response.requestId)
          ELSE approvedMessages
     /\ IF response.data /\ responsePort # NoPort
        THEN /\ outbox' = Append(outbox,
                   [port |-> responsePort, requestId |-> response.requestId,
                    data |-> response.data])
             /\ messagePorts' = [messagePorts EXCEPT ![response.requestId] = NoPort]
        ELSE UNCHANGED <<outbox, messagePorts>>

\* the listener with the push of line 48 moved into the delivery branch: an
\* approval is recorded only when a port is waiting
ListenerRecordsDelivered(response) ==
  LET responsePort == messagePorts[response.requestId]
  IN IF responsePort # NoPort
     THEN /\ approvedMessages' =
               IF response.data THEN Append(approvedMessages, response.requestId)
               ELSE approvedMessages
          /\ outbox' = Append(outbox,
                [port |-> responsePort, requestId |-> response.requestId,
                 data |-> response.data])
          /\ messagePorts' = [messagePorts EXCEPT ![response.requestId] = NoPort]
     ELSE UNCHANGED <<approvedMessages, outbox, messagePorts>>

\* the listener emptying the registry when it finds no port for the answer
ListenerClearsRegistry(response) ==
  LET responsePort == messagePorts[response.requestId]
  IN /\ approvedMessages' =
          IF response.data THEN Append(approvedMessages, response.requestId)
          ELSE approvedMessages
     /\ IF responsePort # NoPort
        THEN /\ outbox' = Append(outbox,
                   [port |-> responsePort, requestId |-> response.requestId,
                    data |-> response.data])
             /\ messagePorts' = [messagePorts EXCEPT ![response.requestId] = NoPort]
        ELSE /\ messagePorts' = [id \in RequestIds |-> NoPort]
             /\ UNCHANGED outbox

\* the listener taking an id off approvedMessages when it is rejected
ListenerForgetsOnReject(response) ==
  LET responsePort == messagePorts[response.requestId]
  IN /\ approvedMessages' =
          IF response.data THEN Append(approvedMessages, response.requestId)
          ELSE SelectSeq(approvedMessages, LAMBDA id : id # response.requestId)
     /\ IF responsePort # NoPort
        THEN /\ outbox' = Append(outbox,
                   [port |-> responsePort, requestId |-> response.requestId,
                    data |-> response.data])
             /\ messagePorts' = [messagePorts EXCEPT ![response.requestId] = NoPort]
        ELSE UNCHANGED <<outbox, messagePorts>>

\* the listener without the test of line 47: every answered id is recorded
ListenerRecordsAll(response) ==
  LET responsePort == messagePorts[response.requestId]
  IN /\ approvedMessages' = Append(approvedMessages, response.requestId)
     /\ IF responsePort # NoPort
        THEN /\ outbox' = Append(outbox,
                   [port |-> responsePort, requestId |-> response.requestId,
                    data |-> response.data])
             /\ messagePorts' = [messagePorts EXCEPT ![response.requestId] = NoPort]
        ELSE UNCHANGED <<outbox, messagePorts>>

\* background.ts:42-56   the runtime.onMessage listener
Listener(response) ==
  LET responsePort == messagePorts[response.requestId]
  IN /\ approvedMessages' =
          IF response.data THEN Append(approvedMessages, response.requestId)
          ELSE approvedMessages
     /\ IF responsePort # NoPort
        THEN /\ outbox' = Append(outbox,
                   [port |-> responsePort, requestId |-> response.requestId,
                    data |-> response.data])
             /\ messagePorts' = [messagePorts EXCEPT ![response.requestId] = NoPort]
        ELSE UNCHANGED <<outbox, messagePorts>>

\* background.ts:43-52   the listener when responsePort.postMessage throws on
\* a port whose other end has gone away: lines 53 and 54 are not reached
ListenerOnDisconnectedPort(response) ==
  /\ approvedMessages' =
       IF response.data THEN Append(approvedMessages, response.requestId)
       ELSE approvedMessages
  /\ errors' = Append(errors, [where |-> "onMessage", requestId |-> response.requestId])
  /\ UNCHANGED <<outbox, messagePorts>>

\* the confirmation page of popup k sends the user's answer once, as a
\* runtime message, and the listener handles it: the port is looked up
\* (line 43), the answer goes to track (line 45), and the rest follows
OnMessage(k, data, outcome) ==
  /\ MacrotaskMayRun
  /\ popups[k].stage = "open"
  /\ LET response == [requestId |-> popups[k].requestId, data |-> data]
         responsePort == messagePorts[response.requestId]
     IN /\ IF ~track(outcome)
           THEN /\ errors' = Append(errors,
                      [where |-> "onMessage", requestId |-> response.requestId])
                /\ UNCHANGED <<approvedMessages, outbox, messagePorts>>
           ELSE IF responsePort \in disconnected
           THEN ListenerOnDisconnectedPort(response)
           ELSE Listener(response) /\ UNCHANGED errors
        /\ popups' = [popups EXCEPT
             ![k].stage = IF data THEN "approved" ELSE "rejected",
             ![k].responded = outcome,
             ![k].routedTo = responsePort]
  /\ UNCHANGED <<requests, disconnected>>

\* background.ts:34-40   the other end of a port goes away; the script has
\* no onDisconnect listener, so nothing else changes
Disconnect(remotePort) ==
  /\ MacrotaskMayRun
  /\ remotePort \notin disconnected
  /\ disconnected' = disconnected \cup {remotePort}
  /\ UNCHANGED <<requests, messagePorts, approvedMessages, popups, outbox, errors>>

\* steps of the handlers once a request is in, with the current window
\* drawn from windows and the fate of telemetry events from outcomes
Steps(windows, outcomes) ==
  \/ \E i \in 1..Len(requests), storage \in Storages, outcome \in outcomes :
       StorageResolved(i, storage, outcome)
  \/ \E i \in 1..Len(requests) :
       IF ResumePostThrows(i) THEN ResumeOnDisconnectedPort(i) ELSE Resume(i)
  \/ \E k \in 1..Len(popups), currentWindow \in windows : CreateWindow(k, currentWindow)
  \/ \E k \in 1..Len(popups), data \in BOOLEAN, outcome \in outcomes :
       OnMessage(k, data, outcome)

\* the steps with one window on screen and telemetry that gets through
Handle == Steps(OneWindow, {"sent"})

Next ==
  \/ /\ Len(requests) < MaxRequests
     /\ \E remotePort \in Ports, message \in Inbound : Receive(remotePort, message)
  \/ Handle

\* the protocol: up to MaxRequests requests, request ids may repeat
Spec == Init /\ [][Next]_vars

-----------------------------------------------------------------------------
(* The decision engine on every kind of request: one request drawn from    *)
(* Messages, evaluated against an approvedMessages list that earlier       *)
(* approvals have left behind.                                             *)

InitDecision ==
  /\ requests = <<>>
  /\ messagePorts = [id \in RequestIds |-> NoPort]
  /\ approvedMessages \in ApprovedLists
  /\ popups = <<>>
  /\ outbox = <<>>
  /\ disconnected = {}
  /\ errors = <<>>

NextDecision ==
  \/ /\ requests = <<>>
     /\ \E remotePort \in Ports, message \in Messages : Receive(remotePort, message)
  \/ Handle

DecisionSpec == InitDecision /\ [][NextDecision]_vars

-----------------------------------------------------------------------------
(* The protocol with the callers' guarantee that request ids are unique,   *)
(* and with the scheduling the platform provides: a settings read          *)
(* resolves, a queued continuation runs, the popup timer fires.  The       *)
(* claims about eventual delivery also assume that the user answers every  *)
(* popup.                                                                  *)

Fresh(requestId) == \A i \in 1..Len(requests) : IdOf(requests[i]) # requestId

NextUnique ==
  \/ /\ Len(requests) < MaxRequests
     /\ \E remotePort \in Ports, message \in Inbound :
          Fresh(message.requestId) /\ Receive(remotePort, message)
  \/ Handle

Fairness ==
  /\ \A i \in 1..MaxRequests :
       /\ WF_vars(\E storage \in Storages :
                    i <= Len(requests) /\ StorageResolved(i, storage, "sent"))
       /\ WF_vars(i <= Len(requests) /\ Resume(i))
       /\ WF_vars(\E currentWindow \in OneWindow :
                    i <= Len(popups) /\ CreateWindow(i, currentWindow))
       /\ WF_vars(\E data \in BOOLEAN : i <= Len(popups) /\ OnMessage(i, data, "sent"))

UniqueSpec == Init /\ [][NextUnique]_vars

FairSpec == UniqueSpec /\ Fairness

-----------------------------------------------------------------------------
(* One request of any kind, with the browser window it came from anywhere  *)
(* on the desktop and of any size.                                         *)

NextGeometry ==
  \/ /\ requests = <<>>
     /\ \E remotePort \in Ports, message \in Messages : Receive(remotePort, message)
  \/ Steps(Windows, {"sent"})

GeometrySpec == Init /\ [][NextGeometry]_vars

-----------------------------------------------------------------------------
(* The protocol with unique request ids and a telemetry service that may   *)
(* fail to take any event.                                                 *)

NextTelemetry ==
  \/ /\ Len(requests) < MaxRequests
     /\ \E remotePort \in Ports, message \in Inbound :
          Fresh(message.requestId) /\ Receive(remotePort, message)
  \/ Steps(OneWindow, TrackOutcomes)

TelemetrySpec == Init /\ [][NextTelemetry]_vars

-----------------------------------------------------------------------------
(* The protocol with unique request ids and pages that may go away at any  *)
(* time, taking their port with them.                                      *)

NextDisconnect ==
  \/ /\ Len(requests) < MaxRequests
     /\ \E remotePort \in Ports, message \in Inbound :
          Fresh(message.requestId) /\ Receive(remotePort, message)
  \/ Handle
  \/ \E remotePort \in Ports : Disconnect(remotePort)

DisconnectSpec == Init /\ [][NextDisconnect]_vars

-----------------------------------------------------------------------------
(* Vocabulary of the properties *)

\* the posts made on port under requestId
Posts(port, requestId) ==
  {j \in 1..Len(outbox) : outbox[j].port = port /\ outbox[j].requestId = requestId}

\* the posts made under requestId on any port
PostsUnder(requestId) == {j \in 1..Len(outbox) : outbox[j].requestId = requestId}

\* the logged calls that port carried under requestId
Carried(port, requestId) ==
  {i \in 1..Len(requests) :
     requests[i].remotePort = port /\ IdOf(requests[i]) = requestId}

Answered(stage) == stage \in {"approved", "rejected"}

\* this step is the listener handling the answer of popup k
AnswerStep(k) == popups[k].stage = "open" /\ Answered(popups'[k].stage)

\* this step is the settings read of call i resolving
EvaluateStep(i) == requests[i].pc = "getStorage" /\ requests'[i].pc = "resume"

\* this step is the continuation of call i
ResumeStep(i) == requests[i].pc = "resume" /\ requests'[i].pc = "done"

-----------------------------------------------------------------------------
(* C1: a bypassed request never causes an outbound message.  Every message *)
(* posted on a port under a request id is owed to a non-bypassed request   *)
(* that the port carried under that id: the posts on (port, id) never      *)
(* outnumber those requests, so when all requests a port carried under an  *)
(* id were bypassed, nothing is posted there under that id, neither an     *)
(* immediate allow nor a routed popup response.                            *)
C1_BypassedNeverAnswered ==
  \A port \in Ports, id \in RequestIds :
    Cardinality(Posts(port, id)) <=
      Cardinality({i \in Carried(port, id) : ~BypassedOf(requests[i])})

\* a bypassed request raised a popup, the user approved it, and nothing was
\* posted on the request's port under its id
C1_Witness ==
  \E i \in 1..Len(requests), k \in 1..Len(popups) :
    /\ requests[i].pc = "done" /\ requests[i].bypassed /\ requests[i].popupCreated
    /\ popups[k].requestId = requests[i].requestId /\ popups[k].bypassed
    /\ popups[k].stage = "approved"
    /\ Posts(requests[i].remotePort, requests[i].requestId) = {}

-----------------------------------------------------------------------------
(* C2: a popup response for a request id that has a registry entry posts   *)
(* exactly that response on the registered port and removes the entry; a   *)
(* response for an id without entry (so a second response, when nothing    *)
(* was registered in between) posts nothing on any port.                   *)
C2_ResolveDeliversOnce ==
  [][\A k \in 1..Len(popups) :
       AnswerStep(k) =>
         LET id == popups[k].requestId
         IN IF messagePorts[id] = NoPort
            THEN outbox' = outbox /\ messagePorts' = messagePorts
            ELSE /\ outbox' = Append(outbox,
                      [port |-> messagePorts[id], requestId |-> id,
                       data |-> (popups'[k].stage = "approved")])
                 /\ messagePorts' = [messagePorts EXCEPT ![id] = NoPort]]_vars

\* two popups of one request id were both answered, one request registered
\* under that id, and exactly one message was posted under it
C2_Witness ==
  \E k1, k2 \in 1..Len(popups) :
    /\ k1 # k2 /\ popups[k1].requestId = popups[k2].requestId
    /\ Answered(popups[k1].stage) /\ Answered(popups[k2].stage)
    /\ Cardinality({i \in 1..Len(requests) :
                      /\ requests[i].pc = "done"
                      /\ requests[i].requestId = popups[k1].requestId
                      /\ ~requests[i].bypassed /\ requests[i].popupCreated}) = 1
    /\ Cardinality(PostsUnder(popups[k1].requestId)) = 1
    /\ messagePorts[popups[k1].requestId] = NoPort

-----------------------------------------------------------------------------
(* C3: with request ids unique and every popup answered, each request that *)
(* is not bypassed gets its decision exactly once and on its own port: at  *)
(* no time is more than one message posted under its id, none is posted on *)
(* another port, and eventually one message is posted on its port.         *)
DeliveredOnce(i) ==
  /\ i <= Len(requests)
  /\ Cardinality(Posts(requests[i].remotePort, IdOf(requests[i]))) = 1

NeverTwiceNorElsewhere ==
  \A i \in 1..Len(requests) :
    ~BypassedOf(requests[i]) =>
      /\ Cardinality(PostsUnder(IdOf(requests[i]))) <= 1
      /\ PostsUnder(IdOf(requests[i])) \subseteq
           Posts(requests[i].remotePort, IdOf(requests[i]))

C3_DecisionExactlyOnce ==
  /\ []NeverTwiceNorElsewhere
  /\ \A i \in 1..MaxRequests :
       (i <= Len(requests) /\ ~BypassedOf(requests[i])) ~> DeliveredOnce(i)

\* a prompted request was answered by its popup with a rejection, and an
\* unprompted one got the immediate allow, each once and on its own port
C3_Witness ==
  \E i1, i2 \in 1..Len(requests) :
    /\ requests[i1].pc = "done" /\ ~requests[i1].bypassed /\ requests[i1].popupCreated
    /\ requests[i2].pc = "done" /\ ~requests[i2].bypassed /\ ~requests[i2].popupCreated
    /\ requests[i1].remotePort # requests[i2].remotePort
    /\ DeliveredOnce(i1) /\ DeliveredOnce(i2)
    /\ \E j \in PostsUnder(requests[i1].requestId) : ~outbox[j].data

-----------------------------------------------------------------------------
(* C4: when the listener handles a response with data = true, the request  *)
(* id is in approvedMessages by the time the response is posted, and it is *)
(* also put there when no port is registered under the id.                 *)
C4_ApprovalRecorded ==
  [][\A k \in 1..Len(popups) :
       (AnswerStep(k) /\ popups'[k].stage = "approved") =>
         /\ includes(approvedMessages', popups[k].requestId)
         /\ Len(approvedMessages') = Len(approvedMessages) + 1]_vars

\* an approval was handled while no port was registered under its id,
\* nothing was posted, and the id is in approvedMessages
C4_Witness ==
  \E k \in 1..Len(popups) :
    /\ popups[k].stage = "approved"
    /\ PostsUnder(popups[k].requestId) = {}
    /\ includes(approvedMessages, popups[k].requestId)

-----------------------------------------------------------------------------
(* C6: when the decision engine returns "no prompt" for a request that is  *)
(* not bypassed, the continuation posts exactly one {requestId, data:true} *)
(* on the request's port and leaves messagePorts as it is.                 *)
C6_NoPromptAllowsAtOnce ==
  [][\A i \in 1..Len(requests) :
       (ResumeStep(i) /\ ~BypassedOf(requests[i]) /\ ~requests[i].popupCreated) =>
         /\ outbox' = Append(outbox,
              [port |-> requests[i].remotePort, requestId |-> IdOf(requests[i]),
               data |-> TRUE])
         /\ messagePorts' = messagePorts]_vars

\* a request whose id was already approved has returned without a popup;
\* its port holds the one allow and nothing is registered under its id
C6_Witness ==
  \E i \in 1..Len(requests) :
    /\ requests[i].pc = "done" /\ ~requests[i].bypassed /\ ~requests[i].popupCreated
    /\ includes(approvedMessages, requests[i].requestId)
    /\ outbox = <<[port |-> requests[i].remotePort,
                   requestId |-> requests[i].requestId, data |-> TRUE]>>
    /\ messagePorts[requests[i].requestId] = NoPort

-----------------------------------------------------------------------------
(* C7: with request ids unique, a request that is not bypassed and for     *)
(* which a popup was created has nothing posted under its id, and its port *)
(* registered under its id once processMessage has returned, for as long   *)
(* as its popup is unanswered; once the popup is answered the one message  *)
(* posted under the id is that answer, on the request's port, and the      *)
(* entry is gone.                                                          *)
C7_PromptedWaitsForPopup ==
  \A i \in 1..Len(requests) :
    (requests[i].pc # "getStorage" /\ ~BypassedOf(requests[i])
       /\ requests[i].popupCreated) =>
      LET id == IdOf(requests[i])
          port == requests[i].remotePort
          own == {k \in 1..Len(popups) : popups[k].requestId = id}
      IN /\ Cardinality(own) = 1
         /\ \A k \in own :
              IF ~Answered(popups[k].stage)
              THEN /\ PostsUnder(id) = {}
                   /\ messagePorts[id] = IF requests[i].pc = "done" THEN port ELSE NoPort
              ELSE /\ Cardinality(PostsUnder(id)) = 1
                   /\ \A j \in PostsUnder(id) :
                        outbox[j] = [port |-> port, requestId |-> id,
                                     data |-> (popups[k].stage = "approved")]
                   /\ messagePorts[id] = NoPort

\* a prompted request is registered and waiting, with its popup on screen,
\* while another request has already been answered on the same port
C7_Witness ==
  \E i \in 1..Len(requests), k \in 1..Len(popups) :
    /\ requests[i].pc = "done" /\ ~requests[i].bypassed /\ requests[i].popupCreated
    /\ popups[k].requestId = requests[i].requestId /\ popups[k].stage = "open"
    /\ messagePorts[requests[i].requestId] = requests[i].remotePort
    /\ \E j \in 1..Len(outbox) : outbox[j].port = requests[i].remotePort

-----------------------------------------------------------------------------
(* Request classes as the specification names them *)

AllowanceClass(message) ==
  \/ message.data.type = "transaction"
  \/ message.data.type = "typed-signature" /\ message.data.typedData.primaryType = "Permit"

ListingClass(message) ==
  message.data.type = "typed-signature" /\ message.data.typedData.primaryType # "Permit"

HashClass(message) == message.data.type = "untyped-signature"

\* the call is past its settings read and has not returned
Evaluated(r) == r.pc = "resume"

-----------------------------------------------------------------------------
(* C5: a request of any type whose id is in approvedMessages when it is    *)
(* evaluated raises no popup (createPopup resolves to false), and a        *)
(* request that raised no popup gets no entry in messagePorts.             *)
C5_ApprovedNotPrompted ==
  [][\A i \in 1..Len(requests) :
       /\ (EvaluateStep(i) /\ includes(approvedMessages, IdOf(requests[i]))) =>
            popups' = popups /\ ~requests'[i].popupCreated
       /\ (ResumeStep(i) /\ ~requests[i].popupCreated) =>
            messagePorts' = messagePorts]_vars

\* a listing that would prompt (setting on, host not exempt, the document
\* decodes to a listing) raised no popup because its id is approved
C5_Witness ==
  \E i \in 1..Len(requests) :
    /\ Evaluated(requests[i]) /\ ListingClass(requests[i].message)
    /\ requests[i].warn
    /\ requests[i].message.data.hostname = "dapp.example"
    /\ requests[i].message.data.typedData.listing = Listing(2, 3)
    /\ includes(approvedMessages, IdOf(requests[i]))
    /\ ~requests[i].popupCreated /\ popups = <<>>

-----------------------------------------------------------------------------
(* C8: an allowance-class request (a transaction, or typed data with       *)
(* primaryType "Permit") from a host on the allowance allow-list raises no *)
(* popup, whatever the decoder finds in its payload.                       *)
C8_AllowListedAllowanceNotPrompted ==
  \A i \in 1..Len(requests) :
    (Evaluated(requests[i]) /\ AllowanceClass(requests[i].message)
       /\ requests[i].message.data.hostname \in AllowList.ALLOWANCE) =>
      ~requests[i].popupCreated /\ popups = <<>>

\* an approve transaction that decodes to an allowance, with the setting on
\* and its id not approved, raised no popup on an allow-listed host
C8_Witness ==
  \E i \in 1..Len(requests) :
    /\ Evaluated(requests[i])
    /\ requests[i].message.data.type = "transaction"
    /\ decodeApproval(requests[i].message.data.transaction) = Allowance
    /\ requests[i].message.data.hostname \in AllowList.ALLOWANCE
    /\ requests[i].warn /\ ~includes(approvedMessages, IdOf(requests[i]))
    /\ ~requests[i].popupCreated

-----------------------------------------------------------------------------
(* C9: dispatch by request type.  A transaction and a typed-data request   *)
(* whose primaryType is exactly "Permit" are evaluated by the allowance    *)
(* path: its allow-list and its decoder decide, and a popup it raises is   *)
(* an allowance warning.  Every other typed-data request is evaluated by   *)
(* the listing path, every untyped signature request by the hash path.     *)
PathOfClass(message) ==
  IF AllowanceClass(message) THEN "createAllowancePopup"
  ELSE IF ListingClass(message) THEN "createNftListingPopup"
  ELSE "createHashSignaturePopup"

PathPrompts(message) ==
  IF AllowanceClass(message)
  THEN /\ message.data.hostname \notin AllowList.ALLOWANCE
       /\ IF message.data.type = "transaction"
          THEN decodeApproval(message.data.transaction) # Null
          ELSE decodePermit(message.data.typedData) # Null
  ELSE IF ListingClass(message)
  THEN /\ message.data.hostname \notin AllowList.NFT_LISTING
       /\ decodeNftListing(message.data.typedData).listing # Null
  ELSE /\ message.data.hostname \notin AllowList.HASH_SIGNATURE
       /\ Len(Replace0x(Chars(message.data.message))) = HashLength

WarningOfClass(message) ==
  IF AllowanceClass(message) THEN "allowance"
  ELSE IF ListingClass(message) THEN "listing" ELSE "hash"

C9_DispatchByType ==
  \A i \in 1..Len(requests) :
    requests[i].pc # "done" =>
      LET message == requests[i].message
      IN /\ requests[i].path = PathOfClass(message)
         /\ Evaluated(requests[i]) =>
              /\ requests[i].popupCreated =
                   (/\ requests[i].warn
                    /\ ~includes(approvedMessages, message.requestId)
                    /\ PathPrompts(message))
              /\ requests[i].popupCreated =>
                   \E k \in 1..Len(popups) :
                     /\ popups[k].requestId = message.requestId
                     /\ popups[k].type = WarningOfClass(message)

\* a Permit whose document also decodes as a listing raised an allowance
\* warning, on a host the listing allow-list exempts
C9_Witness ==
  \E i \in 1..Len(requests) :
    /\ Evaluated(requests[i])
    /\ requests[i].message.data.type = "typed-signature"
    /\ requests[i].message.data.typedData =
         [primaryType |-> "Permit", permit |-> Allowance, listing |-> Listing(2, 3)]
    /\ requests[i].message.data.hostname \in AllowList.NFT_LISTING
    /\ requests[i].path = "createAllowancePopup"
    /\ requests[i].popupCreated
    /\ popups[1].type = "allowance"

-----------------------------------------------------------------------------
(* C10: an untyped signature request that passes the gating (setting on,   *)
(* host not allow-listed, id not approved) raises a popup if and only if   *)
(* its message, with a leading "0x" stripped when it has one, is exactly   *)
(* 64 characters long.                                                     *)
StripPrefix0x(s) ==
  IF Len(s) >= 2 /\ s[1] = "0" /\ s[2] = "x" THEN SubSeq(s, 3, Len(s)) ELSE s

C10_HashIffLength64 ==
  \A i \in 1..Len(requests) :
    (Evaluated(requests[i]) /\ HashClass(requests[i].message)
       /\ requests[i].warn
       /\ requests[i].message.data.hostname \notin AllowList.HASH_SIGNATURE
       /\ ~includes(approvedMessages, IdOf(requests[i]))) =>
      (requests[i].popupCreated <=>
         Len(StripPrefix0x(Chars(requests[i].message.data.message))) = HashLength)

-----------------------------------------------------------------------------
(* C11: the geometry of a popup.  Whatever the reference window, the       *)
(* number of content lines and the bypassed flag, the popup is 480 wide    *)
(* and 320 + 24 * contentLines high, 24 more when bypassed; its left edge  *)
(* is the window's left plus half of (window width - 480), rounded to the  *)
(* nearest integer with halves going up; its top edge is the window's top  *)
(* plus a fifth of (window height - popup height), rounded to the nearest  *)
(* integer.  The window {100, 50, 1000, 800} with 2 content lines, not     *)
(* bypassed, gives width 480, height 368, left 360, top 136.               *)
Placed(k) == popups[k].stage # "delay"

C11_PopupGeometry ==
  \A k \in 1..Len(popups) :
    Placed(k) =>
      LET w == popups[k].currentWindow
          at == popups[k].positions
          height == 320 + 24 * popups[k].contentLines + (IF popups[k].bypassed THEN 24 ELSE 0)
      IN /\ at.width = 480
         /\ at.height = height
         /\ 2 * (at.left - w.left) - (w.width - 480) \in {0, 1}
         /\ 5 * (at.top - w.top) - (w.height - height) \in -2..2
         /\ (w = [left |-> 100, top |-> 50, width |-> 1000, height |-> 800]
              /\ popups[k].contentLines = 2 /\ ~popups[k].bypassed) =>
               at = [width |-> 480, height |-> 368, left |-> 360, top |-> 136]

\* a bypassed popup is placed over a window narrower than itself whose
\* width differs from 480 by an odd number: the half goes up
C11_Witness ==
  \E k \in 1..Len(popups) :
    /\ Placed(k) /\ popups[k].bypassed /\ popups[k].contentLines = 5
    /\ popups[k].currentWindow = [left |-> -1280, top |-> -7, width |-> 479, height |-> 611]
    /\ popups[k].positions = [width |-> 480, height |-> 464, left |-> -1280, top |-> 22]

-----------------------------------------------------------------------------
(* C12: the content lines that size a popup.  A request that raises a      *)
(* popup raises exactly one, with 2 content lines when it is of the        *)
(* allowance class, 0 when it is of the hash class, and as many as the     *)
(* listing has offer legs and consideration legs together when it is of    *)
(* the listing class; the popup's height is 320 plus 24 per content line,  *)
(* plus 24 when bypassed.  A listing with 2 offer legs and 3 consideration *)
(* legs gives 5 content lines and height 440, or 464 when bypassed.        *)
LinesOfClass(message) ==
  IF AllowanceClass(message) THEN 2
  ELSE IF HashClass(message) THEN 0
  ELSE Len(message.data.typedData.listing.offer)
         + Len(message.data.typedData.listing.consideration)

C12_ContentLines ==
  [][/\ \A i \in 1..Len(requests) :
          (EvaluateStep(i) /\ requests'[i].popupCreated) =>
            /\ Len(popups') = Len(popups) + 1
            /\ popups'[Len(popups')].contentLines = LinesOfClass(requests[i].message)
            /\ (/\ ListingClass(requests[i].message)
                /\ requests[i].message.data.typedData.listing = Listing(2, 3)) =>
                 popups'[Len(popups')].contentLines = 5
     /\ \A k \in 1..Len(popups') :
          popups'[k].stage # "delay" =>
            /\ popups'[k].positions.height =
                 320 + 24 * popups'[k].contentLines
                   + (IF popups'[k].bypassed THEN 24 ELSE 0)
            /\ popups'[k].contentLines = 5 =>
                 popups'[k].positions.height = IF popups'[k].bypassed THEN 464 ELSE 440
    ]_vars

\* a bypassed listing with 2 offer legs and 3 consideration legs raised a
\* popup of 5 content lines that was placed 464 high
C12_Witness ==
  \E k \in 1..Len(popups) :
    /\ Placed(k) /\ popups[k].type = WarningType.LISTING /\ popups[k].bypassed
    /\ popups[k].contentLines = 5 /\ popups[k].positions.height = 464

-----------------------------------------------------------------------------
(* C13 as stated: per request id the lifecycle is Unregistered ->          *)
(* Registered -> Resolved, and Resolved is terminal.  Once a popup         *)
(* response for an id was routed to a registered port (approved or         *)
(* rejected) and the entry removed, messagePorts has no entry for that id  *)
(* ever again.                                                             *)
Routed(id) ==
  \E k \in 1..Len(popups) :
    /\ popups[k].requestId = id /\ Answered(popups[k].stage)
    /\ popups[k].routedTo # NoPort

C13_ResolvedIsTerminal ==
  \A id \in RequestIds : Routed(id) => messagePorts[id] = NoPort

(* C13, amended: Resolved is terminal for an id once a response approving  *)
(* it has been handled: from then on messagePorts never has an entry for   *)
(* that id, whatever requests and responses follow.  After a rejection the *)
(* id is back to Unregistered: a later request with the same id is         *)
(* evaluated afresh and, when it raises a popup, registers its port again. *)
C13_ApprovedIsTerminal ==
  \A id \in RequestIds : includes(approvedMessages, id) => messagePorts[id] = NoPort

\* an approval was routed for an id, a later request with the same id was
\* allowed at once without popup, and the id has no entry
C13_Witness ==
  \E k \in 1..Len(popups), i \in 1..Len(requests) :
    /\ popups[k].stage = "approved" /\ popups[k].routedTo # NoPort
    /\ requests[i].pc = "done" /\ requests[i].requestId = popups[k].requestId
    /\ ~requests[i].bypassed /\ ~requests[i].popupCreated
    /\ Cardinality(PostsUnder(popups[k].requestId)) = 2
    /\ messagePorts[popups[k].requestId] = NoPort

-----------------------------------------------------------------------------
(* C14: a telemetry failure never reaches the decision path.  When the     *)
(* event a path hands to track fails, the path still returns to            *)
(* processMessage with its popup raised, and processMessage still          *)
(* registers the port under the request id (a request that raised no       *)
(* popup calls no telemetry and gets its allow at once); when the event    *)
(* the listener hands to track fails, the listener still records an        *)
(* approval and still posts the answer on the registered port and removes  *)
(* the entry.  No step throws.                                             *)
RequestedFailed(id) ==
  \E k \in 1..Len(popups) : popups[k].requestId = id /\ popups[k].requested = "failed"

-----------------------------------------------------------------------------
(* C15: a popup response that arrives after the port registered for its    *)
(* request id has disconnected is dropped.  The listener attempts no       *)
(* delivery and posts nothing, no error arises in it, and no entry for     *)
(* that id remains in messagePorts afterwards.                             *)
C15_DisconnectedResponseDropped ==
  [][\A k \in 1..Len(popups) :
       (AnswerStep(k) /\ messagePorts[popups[k].requestId] \in disconnected) =>
         /\ outbox' = outbox
         /\ errors' = errors
         /\ messagePorts'[popups[k].requestId] = NoPort]_vars

-----------------------------------------------------------------------------
(* C16: a popup response for a request id without entry in messagePorts    *)
(* (never registered, or already resolved) is dropped in silence: nothing  *)
(* is posted on any port, no error is raised, and messagePorts is left as  *)
(* it was, the entries of all other ids included.                          *)
C16_UnregisteredResponseDropped ==
  [][\A k \in 1..Len(popups) :
       (AnswerStep(k) /\ messagePorts[popups[k].requestId] = NoPort) =>
         /\ outbox' = outbox
         /\ errors' = errors
         /\ messagePorts' = messagePorts]_vars

\* the answer to the popup of a bypassed request found no port and posted
\* nothing, while the port of another request stayed registered
C16_Witness ==
  \E k \in 1..Len(popups), id \in RequestIds :
    /\ Answered(popups[k].stage) /\ popups[k].routedTo = NoPort
    /\ id # popups[k].requestId /\ messagePorts[id] # NoPort
    /\ PostsUnder(popups[k].requestId) = {}
    /\ outbox = <<>> /\ errors = <<>>

-----------------------------------------------------------------------------
(* C17 as stated: for a request with bypassed = true the warning           *)
(* evaluation is skipped entirely.  Handling it runs no gating and no      *)
(* decoding of the decision engine and raises no popup, and leaves         *)
(* messagePorts unchanged.                                                 *)
HandlingStep(i) ==
  /\ requests[i].pc # "done" /\ requests'[i] # requests[i]

C17_BypassSkipsEvaluation ==
  [][\A i \in 1..Len(requests) :
       (HandlingStep(i) /\ BypassedOf(requests[i])) =>
         /\ popups' = popups
         /\ ~requests'[i].popupCreated
         /\ messagePorts' = messagePorts]_vars

(* C17, amended: a request with bypassed = true is evaluated by the        *)
(* decision engine like any other (same gating, same decoding), and when   *)
(* the engine decides to warn it raises one popup, flagged bypassed.  What *)
(* the flag skips is the answer: handling the request leaves messagePorts  *)
(* unchanged and posts nothing.                                            *)
C17_BypassSkipsRegistration ==
  [][\A i \in 1..Len(requests) :
       (HandlingStep(i) /\ BypassedOf(requests[i])) =>
         /\ messagePorts' = messagePorts
         /\ outbox' = outbox
         /\ EvaluateStep(i) =>
              /\ requests'[i].popupCreated =
                   (/\ requests'[i].warn
                    /\ ~includes(approvedMessages, IdOf(requests[i]))
                    /\ PathPrompts(requests[i].message))
              /\ popups' =
                   IF requests'[i].popupCreated
                   THEN Append(popups,
                          [popups'[Len(popups')] EXCEPT
                             !.requestId = IdOf(requests[i]), !.bypassed = TRUE,
                             !.stage = "delay"])
                   ELSE popups]_vars

\* a bypassed request raised a popup flagged bypassed, returned, and
\* neither a port was registered nor a message posted
C17_Witness ==
  \E i \in 1..Len(requests), k \in 1..Len(popups) :
    /\ requests[i].pc = "done" /\ requests[i].bypassed /\ requests[i].popupCreated
    /\ popups[k].requestId = requests[i].requestId /\ popups[k].bypassed
    /\ popups[k].stage = "open"
    /\ messagePorts = [id \in RequestIds |-> NoPort]
    /\ outbox = <<>>

-----------------------------------------------------------------------------
(* C18: approvedMessages is append-only.  In every step, every request id  *)
(* that is in the list before the step is in it after the step; the list   *)
(* before the step is a prefix of the list after it.                       *)
C18_ApprovedAppendOnly ==
  [][/\ \A id \in RequestIds :
          includes(approvedMessages, id) => includes(approvedMessages', id)
     /\ Len(approvedMessages') >= Len(approvedMessages)
     /\ SubSeq(approvedMessages', 1, Len(approvedMessages)) = approvedMessages]_vars

\* an id was approved, then a popup of the same id was rejected or a
\* second id approved, and the first id is still in the list
C18_Witness ==
  \E k1, k2 \in 1..Len(popups) :
    /\ k1 # k2 /\ popups[k1].stage = "approved" /\ Answered(popups[k2].stage)
    /\ approvedMessages # <<>> /\ approvedMessages[1] = popups[k1].requestId
    /\ \/ /\ popups[k2].stage = "approved"
          /\ approvedMessages = <<popups[k1].requestId, popups[k2].requestId>>
       \/ /\ popups[k2].stage = "rejected" /\ popups[k2].routedTo = NoPort
          /\ popups[k1].routedTo # NoPort
          /\ popups[k2].requestId = popups[k1].requestId
          /\ approvedMessages = <<popups[k1].requestId>>

-----------------------------------------------------------------------------
(* C19: approvedMessages holds only request ids for which a popup response *)
(* with data = true has been handled, once per such response.  A response  *)
(* with data = false adds nothing and neither does the immediate allow, so *)
(* a request that reuses the id of a rejected one is evaluated again: it   *)
(* raises a popup whenever its path would prompt.                          *)
ApprovedPopups(id) ==
  {k \in 1..Len(popups) : popups[k].requestId = id /\ popups[k].stage = "approved"}

RejectedPopups(id) ==
  {k \in 1..Len(popups) : popups[k].requestId = id /\ popups[k].stage = "rejected"}

C19_OnlyApprovalsRecorded ==
  [][/\ \A id \in RequestIds :
          Cardinality({j \in 1..Len(approvedMessages') : approvedMessages'[j] = id})
            = Cardinality({k \in 1..Len(popups') :
                             popups'[k].requestId = id /\ popups'[k].stage = "approved"})
     /\ \A i \in 1..Len(requests) :
          (/\ EvaluateStep(i)
           /\ RejectedPopups(IdOf(requests[i])) # {}
           /\ ApprovedPopups(IdOf(requests[i])) = {}
           /\ requests'[i].warn /\ PathPrompts(requests[i].message)) =>
            requests'[i].popupCreated /\ Len(popups') = Len(popups) + 1]_vars

\* a request was rejected, and a request with the same id raised a popup
\* again and had its port registered; nothing is in approvedMessages
C19_Witness ==
  \E k1, k2 \in 1..Len(popups) :
    /\ k1 < k2 /\ popups[k1].requestId = popups[k2].requestId
    /\ popups[k1].stage = "rejected" /\ popups[k1].routedTo # NoPort
    /\ ~popups[k2].bypassed /\ popups[k2].stage = "open"
    /\ messagePorts[popups[k2].requestId] # NoPort
    /\ Cardinality(PostsUnder(popups[k1].requestId)) = 1
    /\ approvedMessages = <<>>

-----------------------------------------------------------------------------
(* C20: registration precedes resolution.  With request ids unique, when   *)
(* the answer of a popup raised by a request that is not bypassed is       *)
(* handled, the request has returned from processMessage and messagePorts  *)
(* holds the request's port under its id: the answer is never handled      *)
(* before the port is registered, whatever the order of the asynchronous   *)
(* steps, and so it is posted on that port.                                *)
C20_RegisteredBeforeResolved ==
  [][\A k \in 1..Len(popups) :
       (AnswerStep(k) /\ ~popups[k].bypassed) =>
         \E i \in 1..Len(requests) :
           /\ IdOf(requests[i]) = popups[k].requestId
           /\ requests[i].pc = "done"
           /\ messagePorts[popups[k].requestId] = requests[i].remotePort
           /\ popups'[k].routedTo = requests[i].remotePort
           /\ outbox' = Append(outbox,
                 [port |-> requests[i].remotePort, requestId |-> popups[k].requestId,
                  data |-> (popups'[k].stage = "approved")])]_vars

\* two requests were prompted on different ports, the second popup was
\* answered first, and each answer went to the port of its own request
C20_Witness ==
  /\ Len(popups) = 2 /\ Len(outbox) = 2
  /\ ~popups[1].bypassed /\ ~popups[2].bypassed
  /\ Answered(popups[1].stage) /\ Answered(popups[2].stage)
  /\ popups[1].routedTo # NoPort /\ popups[2].routedTo # NoPort
  /\ popups[1].routedTo # popups[2].routedTo
  /\ outbox[1].requestId = popups[2].requestId /\ outbox[1].port = popups[2].routedTo
  /\ outbox[2].requestId = popups[1].requestId /\ outbox[2].port = popups[1].routedTo

=============================================================================
